---- MODULE Spec2Model ----
(***************************************************************************)
(* A model of tetris.py: the Tetris game controller (board, falling piece, *)
(* score, running flag, drop speed), its tick handler `update` and its key *)
(* handler `handle_key`, together with the Tk collaborators they touch     *)
(* (canvas items, score label, the `after` timer queue).                   *)
(*                                                                         *)
(* Coordinates are 0-based as in the source; TLA+ sequences are 1-based,   *)
(* so board[y][x] of the source is board[y + 1][x + 1] here.               *)
(***************************************************************************)
EXTENDS Integers, Sequences, FiniteSets, TLC

VARIABLES board, current_piece, score, running, drop_speed, score_label,
          canvas, pending, error, locks, ret

vars == <<board, current_piece, score, running, drop_speed, score_label,
          canvas, pending, error, locks, ret>>

-----------------------------------------------------------------------------
(* Dimensions.  The source plays on 300 // 30 = 10 by 600 // 30 = 20 cells *)
(* of 30 pixels; the model keeps the arithmetic and explores a smaller     *)
(* board with smaller cells.                                               *)

BOARD_WIDTH == 5

BOARD_HEIGHT == 4

BLOCK_SIZE == 2

FALL_SPEED == 1

FAST_DROP_SPEED == 100

\* A session is explored for MaxLocks calls of lock_piece that run to their
\* end, and the piece spawned by the last of them until its own call of
\* lock_piece, which is explored when it raises (it spawns no piece then).
MaxLocks == 1

None == "None"

SHAPES ==
    << << <<1, 1, 1, 1>> >>,
       << <<1, 1>>, <<1, 1>> >>,
       << <<0, 1, 0>>, <<1, 1, 1>> >>,
       << <<1, 1, 0>>, <<0, 1, 1>> >>,
       << <<0, 1, 1>>, <<1, 1, 0>> >>,
       << <<1, 1, 1>>, <<1, 0, 0>> >>,
       << <<1, 1, 1>>, <<0, 0, 1>> >> >>

SHAPE_COLORS == <<"cyan", "yellow", "purple", "green", "red", "orange", "blue">>

\* The outcomes of random.choice(SHAPES) and random.choice(SHAPE_COLORS), as
\* indices into the two tables: every entry can be drawn.
SpawnShapes == 1..Len(SHAPES)

SpawnColors == 1..Len(SHAPE_COLORS)

KeySyms == {"Left", "Right", "Down", "Up", "space"}

-----------------------------------------------------------------------------
(* Piece *)

\* Piece.__init__
Piece(shape, color) ==
    [shape |-> shape, color |-> color,
     x |-> (BOARD_WIDTH \div 2) - (Len(shape[1]) \div 2),
     y |-> 0, pixel_y |-> 0]

\* rotate without the row reversal (zip(*shape)): the transpose.
rotate_transposes(shape) ==
    [i \in 1..Len(shape[1]) |-> [j \in 1..Len(shape) |-> shape[j][i]]]

\* Piece.rotate: list(zip(*shape[::-1])); row i of the result is column i of
\* the row-reversed matrix.
rotate(shape) ==
    LET r == Len(shape)
        c == Len(shape[1])
    IN  [i \in 1..c |-> [j \in 1..r |-> shape[r + 1 - j][i]]]

-----------------------------------------------------------------------------
(* The game state as one record, so that the methods of Tetris are         *)
(* operators from state to state.                                          *)

st == [board |-> board, current_piece |-> current_piece, score |-> score,
       running |-> running, drop_speed |-> drop_speed,
       score_label |-> score_label, canvas |-> canvas, pending |-> pending,
       error |-> error, locks |-> locks]

EmptyRow == [x \in 1..BOARD_WIDTH |-> None]

EmptyBoard == [y \in 1..BOARD_HEIGHT |-> EmptyRow]

\* Tetris.new_piece, for the two random choices made
new_piece(shape_ix, color_ix) == Piece(SHAPES[shape_ix], SHAPE_COLORS[color_ix])

\* Tetris.draw_board: canvas.delete("all"), then one rectangle per locked
\* cell and per cell of the current piece.  Canvas items are kept by kind.
draw_board(s) ==
    LET locked == \E y \in 1..Len(s.board) : \E x \in 1..Len(s.board[y]) :
                      s.board[y][x] # None
        shape == s.current_piece.shape
        falling == \E y \in 1..Len(shape) : \E x \in 1..Len(shape[y]) :
                       shape[y][x] = 1
    IN  [s EXCEPT !.canvas = IF locked \/ falling THEN {"rectangle"} ELSE {}]

\* The nested loops of valid_move, from row y and column x of the shape on
\* (0-based as enumerate counts them); a return leaves both loops.
RECURSIVE valid_move_loop(_, _, _, _, _, _)
valid_move_loop(b, p, y, x, dx, dy) ==
    IF y >= Len(p.shape) THEN TRUE
    ELSE IF x >= Len(p.shape[y + 1]) THEN valid_move_loop(b, p, y + 1, 0, dx, dy)
    ELSE IF p.shape[y + 1][x + 1] = 1
    THEN LET new_x == p.x + x + dx
             new_y == p.y + y + dy
         IN  IF new_x < 0 \/ new_x >= BOARD_WIDTH \/ new_y >= BOARD_HEIGHT
             THEN FALSE
             ELSE IF new_y >= 0 /\ b[new_y + 1][new_x + 1] # None
             THEN FALSE
             ELSE valid_move_loop(b, p, y, x + 1, dx, dy)
    ELSE valid_move_loop(b, p, y, x + 1, dx, dy)

\* valid_move with the collision test written `new_y > 0`: row 0 is never
\* tested against the board.
valid_move_skips_row0(s, dx, dy) ==
    LET p == s.current_piece
    IN  \A y \in 0..(Len(p.shape) - 1) : \A x \in 0..(Len(p.shape[y + 1]) - 1) :
            p.shape[y + 1][x + 1] = 1 =>
                LET new_x == p.x + x + dx
                    new_y == p.y + y + dy
                IN  /\ ~(new_x < 0 \/ new_x >= BOARD_WIDTH \/ new_y >= BOARD_HEIGHT)
                    /\ ~(new_y > 0 /\ s.board[new_y + 1][new_x + 1] # None)

\* Tetris.valid_move
valid_move(s, dx, dy) ==
    valid_move_loop(s.board, s.current_piece, 0, 0, dx, dy)

\* Python list indexing: i in [0, n) is itself, i in [-n, 0) counts from the
\* end, anything else raises IndexError (0 here).  Result is 1-based.
PyIndex(i, n) ==
    IF 0 <= i /\ i < n THEN i + 1
    ELSE IF -n <= i /\ i < 0 THEN i + n + 1
    ELSE 0

\* The cell-writing loops of lock_piece, from row y and column x of the
\* shape on; the first IndexError ends them.
RECURSIVE lock_write(_, _, _, _)
lock_write(b, p, y, x) ==
    IF y >= Len(p.shape) THEN [board |-> b, error |-> "none"]
    ELSE IF x >= Len(p.shape[y + 1]) THEN lock_write(b, p, y + 1, 0)
    ELSE IF p.shape[y + 1][x + 1] = 1
    THEN LET row == PyIndex(p.y + y, Len(b))
             col == IF row = 0 THEN 0 ELSE PyIndex(p.x + x, Len(b[row]))
         IN  IF row = 0 \/ col = 0
             THEN [board |-> b, error |-> "IndexError"]
             ELSE lock_write([b EXCEPT ![row][col] = p.color], p, y, x + 1)
    ELSE lock_write(b, p, y, x + 1)

\* new_board.insert(0, empty row), cleared_rows times
RECURSIVE insert_empty_rows(_, _)
insert_empty_rows(new_board, n) ==
    IF n <= 0 THEN new_board
    ELSE insert_empty_rows(<<EmptyRow>> \o new_board, n - 1)

\* [row for row in board if any(cell is None for cell in row)]
RECURSIVE rows_with_none(_)
rows_with_none(b) ==
    IF b = <<>> THEN <<>>
    ELSE (IF \E x \in 1..Len(Head(b)) : Head(b)[x] = None
          THEN <<Head(b)>> ELSE <<>>) \o rows_with_none(Tail(b))

\* clear_full_rows with the empty rows appended below the kept rows
\* (new_board.append instead of new_board.insert(0, ...)).
clear_full_rows_appends(s) ==
    LET new_board == rows_with_none(s.board)
        cleared_rows == BOARD_HEIGHT - Len(new_board)
        new_score == s.score + cleared_rows * 100
    IN  [s EXCEPT !.score = new_score,
                  !.score_label = new_score,
                  !.board = new_board \o [i \in 1..cleared_rows |-> EmptyRow]]

\* Tetris.clear_full_rows
clear_full_rows(s) ==
    LET new_board == rows_with_none(s.board)
        cleared_rows == BOARD_HEIGHT - Len(new_board)
        new_score == s.score + cleared_rows * 100
    IN  [s EXCEPT !.score = new_score,
                  !.score_label = new_score,
                  !.board = insert_empty_rows(new_board, cleared_rows)]

\* Tetris.game_over
game_over(s) ==
    [s EXCEPT !.running = FALSE, !.canvas = @ \cup {"GAME OVER"}]

\* lock_piece with the game-over test asking whether the new piece fits where
\* it is (valid_move(0, 0)) instead of whether it can move down.
lock_piece_tests_spawn_cells(s, shape_ix, color_ix) ==
    LET w  == lock_write(s.board, s.current_piece, 0, 0)
        s0 == [s EXCEPT !.board = w.board, !.locks = @ + 1]
    IN  IF w.error # "none" THEN [s0 EXCEPT !.error = w.error]
        ELSE LET s1 == clear_full_rows(s0)
                 s2 == [s1 EXCEPT !.current_piece = new_piece(shape_ix, color_ix)]
             IN  IF ~valid_move(s2, 0, 0) /\ s2.current_piece.y = 0
                 THEN game_over(s2) ELSE s2

\* Tetris.lock_piece; an IndexError in the writing loop leaves the method
\* with the cells written so far.
lock_piece(s, shape_ix, color_ix) ==
    LET w  == lock_write(s.board, s.current_piece, 0, 0)
        s0 == [s EXCEPT !.board = w.board, !.locks = @ + 1]
    IN  IF w.error # "none" THEN [s0 EXCEPT !.error = w.error]
        ELSE LET s1 == clear_full_rows(s0)
                 s2 == [s1 EXCEPT !.current_piece = new_piece(shape_ix, color_ix)]
             IN  IF ~valid_move(s2, 0, 1) /\ s2.current_piece.y = 0
                 THEN game_over(s2) ELSE s2

\* Tetris.check_collision
check_collision(s, shape_ix, color_ix) ==
    IF ~valid_move(s, 0, 1) THEN lock_piece(s, shape_ix, color_ix) ELSE s

\* The end of update re-arming the timer without looking at running.
update_tail_always_rearms(s) ==
    LET s1 == draw_board(s)
        s2 == [s1 EXCEPT !.drop_speed = FALL_SPEED]
    IN  [s2 EXCEPT !.pending = @ + 1]

\* The end of update, lines 170-176: redraw, reset the drop speed, re-arm.
update_tail(s) ==
    LET s1 == draw_board(s)
        s2 == [s1 EXCEPT !.drop_speed = FALL_SPEED]
    IN  IF s2.running THEN [s2 EXCEPT !.pending = @ + 1] ELSE s2

\* update taking the piece down by every row its pixel_y has passed
\* (y = pixel_y // BLOCK_SIZE) instead of by one row.
update_skips_rows(s, shape_ix, color_ix) ==
    LET p  == s.current_piece
        py == p.pixel_y + s.drop_speed
        s1 == [s EXCEPT !.current_piece.pixel_y = py]
    IN  IF py >= (p.y + 1) * BLOCK_SIZE
        THEN LET s2 == [s1 EXCEPT !.current_piece.y = py \div BLOCK_SIZE]
                 s3 == check_collision(s2, shape_ix, color_ix)
             IN  IF s3.error # s.error THEN s3 ELSE update_tail(s3)
        ELSE update_tail(s1)

\* update without line 166: pixel_y keeps what drop_speed took it to when
\* the piece advances a row.
update_keeps_overshoot(s, shape_ix, color_ix) ==
    LET p  == s.current_piece
        py == p.pixel_y + s.drop_speed
        s1 == [s EXCEPT !.current_piece.pixel_y = py]
    IN  IF py >= (p.y + 1) * BLOCK_SIZE
        THEN LET s2 == [s1 EXCEPT !.current_piece.y = p.y + 1]
                 s3 == check_collision(s2, shape_ix, color_ix)
             IN  IF s3.error # s.error THEN s3 ELSE update_tail(s3)
        ELSE update_tail(s1)

\* update testing for a collision before it advances the piece: a piece
\* that cannot move down is locked in the row it is in.
update_locks_in_place(s, shape_ix, color_ix) ==
    LET p  == s.current_piece
        py == p.pixel_y + s.drop_speed
        s1 == [s EXCEPT !.current_piece.pixel_y = py]
    IN  IF py >= (p.y + 1) * BLOCK_SIZE
        THEN IF ~valid_move(s1, 0, 1)
             THEN LET s3 == lock_piece(s1, shape_ix, color_ix)
                  IN  IF s3.error # s.error THEN s3 ELSE update_tail(s3)
             ELSE update_tail([s1 EXCEPT !.current_piece.pixel_y = (p.y + 1) * BLOCK_SIZE,
                                         !.current_piece.y = p.y + 1])
        ELSE update_tail(s1)

\* Tetris.update; an exception raised below it ends the handler at once.
update(s, shape_ix, color_ix) ==
    LET p  == s.current_piece
        py == p.pixel_y + s.drop_speed
        s1 == [s EXCEPT !.current_piece.pixel_y = py]
    IN  IF py >= (p.y + 1) * BLOCK_SIZE
        THEN LET s2 == [s1 EXCEPT !.current_piece.pixel_y = (p.y + 1) * BLOCK_SIZE,
                                  !.current_piece.y = p.y + 1]
                 s3 == check_collision(s2, shape_ix, color_ix)
             IN  IF s3.error # s.error THEN s3 ELSE update_tail(s3)
        ELSE update_tail(s1)

\* handle_key with Down moving the piece one row down at once (a soft drop)
\* besides setting the drop speed.
handle_key_down_moves(s, keysym) ==
    IF keysym = "Left" /\ valid_move(s, -1, 0)
    THEN [s EXCEPT !.current_piece.x = @ - 1]
    ELSE IF keysym = "Right" /\ valid_move(s, 1, 0)
    THEN [s EXCEPT !.current_piece.x = @ + 1]
    ELSE IF keysym = "Down"
    THEN IF valid_move(s, 0, 1)
         THEN [s EXCEPT !.drop_speed = FAST_DROP_SPEED, !.current_piece.y = @ + 1]
         ELSE [s EXCEPT !.drop_speed = FAST_DROP_SPEED]
    ELSE IF keysym = "Up"
    THEN LET original_shape == s.current_piece.shape
             s1 == [s EXCEPT !.current_piece.shape = rotate(original_shape)]
         IN  IF ~valid_move(s1, 0, 0)
             THEN [s1 EXCEPT !.current_piece.shape = original_shape]
             ELSE s1
    ELSE s

\* handle_key without the undo of a rotation that does not fit.
handle_key_keeps_rotation(s, keysym) ==
    IF keysym = "Left" /\ valid_move(s, -1, 0)
    THEN [s EXCEPT !.current_piece.x = @ - 1]
    ELSE IF keysym = "Right" /\ valid_move(s, 1, 0)
    THEN [s EXCEPT !.current_piece.x = @ + 1]
    ELSE IF keysym = "Down"
    THEN [s EXCEPT !.drop_speed = FAST_DROP_SPEED]
    ELSE IF keysym = "Up"
    THEN [s EXCEPT !.current_piece.shape = rotate(@)]
    ELSE s

\* Tetris.handle_key
handle_key(s, keysym) ==
    IF keysym = "Left" /\ valid_move(s, -1, 0)
    THEN [s EXCEPT !.current_piece.x = @ - 1]
    ELSE IF keysym = "Right" /\ valid_move(s, 1, 0)
    THEN [s EXCEPT !.current_piece.x = @ + 1]
    ELSE IF keysym = "Down"
    THEN [s EXCEPT !.drop_speed = FAST_DROP_SPEED]
    ELSE IF keysym = "Up"
    THEN LET original_shape == s.current_piece.shape
             s1 == [s EXCEPT !.current_piece.shape = rotate(original_shape)]
         IN  IF ~valid_move(s1, 0, 0)
             THEN [s1 EXCEPT !.current_piece.shape = original_shape]
             ELSE s1
    ELSE s

-----------------------------------------------------------------------------
(* The game: construction, ticks and key events *)

Assign(n) ==
    /\ board' = n.board
    /\ current_piece' = n.current_piece
    /\ score' = n.score
    /\ running' = n.running
    /\ drop_speed' = n.drop_speed
    /\ score_label' = n.score_label
    /\ canvas' = n.canvas
    /\ pending' = n.pending
    /\ error' = n.error
    /\ locks' = n.locks

NoCall == [called |-> FALSE, dx |-> 0, dy |-> 0, value |-> TRUE]

\* Tetris.__init__ up to the call of update (lines 43-61)
Constructed(shape_ix, color_ix) ==
    [board |-> EmptyBoard, current_piece |-> new_piece(shape_ix, color_ix),
     score |-> 0, running |-> TRUE, drop_speed |-> FALL_SPEED,
     score_label |-> 0, canvas |-> {}, pending |-> 0, error |-> "none",
     locks |-> 0]

\* The state after Tetris(root): __init__ ends with the first update().
Init ==
    \E shape_ix \in SpawnShapes, color_ix \in SpawnColors :
        LET n == update(Constructed(shape_ix, color_ix), shape_ix, color_ix)
        IN  /\ board = n.board
            /\ current_piece = n.current_piece
            /\ score = n.score
            /\ running = n.running
            /\ drop_speed = n.drop_speed
            /\ score_label = n.score_label
            /\ canvas = n.canvas
            /\ pending = n.pending
            /\ error = n.error
            /\ locks = n.locks
            /\ ret = NoCall

\* The calls of lock_piece that ran to their end (a call that raised did not).
LocksCompleted(s) == IF s.error = "none" THEN s.locks ELSE s.locks - 1

\* The states update can leave s in.  random.choice runs only in new_piece,
\* which only a call of lock_piece that gets past its writing loop and
\* clear_full_rows reaches: any other run of update has one outcome.
UpdateOutcomes(s) ==
    LET n == update(s, 1, 1)
    IN  IF LocksCompleted(n) = LocksCompleted(s)
        THEN {n}
        ELSE {update(s, shape_ix, color_ix) :
                  shape_ix \in SpawnShapes, color_ix \in SpawnColors}

\* The timer fires: Tk takes the callback off the after queue and runs update.
Tick ==
    /\ pending > 0
    /\ LocksCompleted(update([st EXCEPT !.pending = @ - 1], 1, 1)) <= MaxLocks
    /\ \E n \in UpdateOutcomes([st EXCEPT !.pending = @ - 1]) : Assign(n)
    /\ UNCHANGED ret

\* A <Key> event: Tk runs handle_key to completion.
Key ==
    /\ \E keysym \in KeySyms : \E n \in {handle_key(st, keysym)} : Assign(n)
    /\ UNCHANGED ret

Next == Tick \/ Key

Spec == Init /\ [][Next]_vars

\* The game with its timer: a callback armed with root.after is run by the
\* Tk main loop after its delay, whatever key events arrive meanwhile.
SpecLive == Init /\ [][Next]_vars /\ WF_vars(Tick)

-----------------------------------------------------------------------------
(* The game taken up where a lock can complete a row: the first piece of   *)
(* the session was an I, has been moved to column x0 and has come down     *)
(* flat to the last row but one, a pixel short of the last row.  The tick  *)
(* that follows locks it on the last row and draws the second piece.       *)

\* The session as that tick finds it, its callback taken off the after queue.
StackStart(x0, color_ix) ==
    [Constructed(1, color_ix) EXCEPT
        !.current_piece.x = x0,
        !.current_piece.y = BOARD_HEIGHT - 2,
        !.current_piece.pixel_y = (BOARD_HEIGHT - 1) * BLOCK_SIZE - 1,
        !.canvas = {"rectangle"}]

\* The states that tick (update) leaves, for every column the I fits in,
\* every colour it can have and every piece new_piece can draw.
InitStack ==
    \E x0 \in 0..(BOARD_WIDTH - Len(SHAPES[1][1])), color_ix \in SpawnColors :
        \E n \in UpdateOutcomes(StackStart(x0, color_ix)) :
            /\ board = n.board
            /\ current_piece = n.current_piece
            /\ score = n.score
            /\ running = n.running
            /\ drop_speed = n.drop_speed
            /\ score_label = n.score_label
            /\ canvas = n.canvas
            /\ pending = n.pending
            /\ error = n.error
            /\ locks = n.locks
            /\ ret = NoCall

\* The timer fires.  The session is followed until MaxLocks further calls of
\* lock_piece have run to their end.
TickStack ==
    /\ pending > 0
    /\ LocksCompleted(st) <= MaxLocks
    /\ \E n \in UpdateOutcomes([st EXCEPT !.pending = @ - 1]) : Assign(n)
    /\ UNCHANGED ret

\* A <Key> event, in the same part of the session.
KeyStack ==
    /\ LocksCompleted(st) <= MaxLocks
    /\ \E keysym \in KeySyms : \E n \in {handle_key(st, keysym)} : Assign(n)
    /\ UNCHANGED ret

NextStack == TickStack \/ KeyStack

SpecStack == InitStack /\ [][NextStack]_vars

-----------------------------------------------------------------------------
(* clear_full_rows on its own: any board built from a few kinds of row *)

RowOf(cols) == [x \in 1..BOARD_WIDTH |-> IF x \in cols THEN SHAPE_COLORS[1] ELSE None]

\* empty, full, one cell, all but one cell, two cells in the middle
RowPatterns ==
    {RowOf({}), RowOf(1..BOARD_WIDTH), RowOf({1}), RowOf(2..BOARD_WIDTH), RowOf({3, 4})}

StateWithBoard(b, p) ==
    /\ board = b
    /\ current_piece = p
    /\ score = 0
    /\ running = TRUE
    /\ drop_speed = FALL_SPEED
    /\ score_label = 0
    /\ canvas = {}
    /\ pending = 0
    /\ error = "none"
    /\ locks = 0
    /\ ret = NoCall

InitClear ==
    \E b \in [1..BOARD_HEIGHT -> RowPatterns] : StateWithBoard(b, new_piece(1, 1))

ClearCall ==
    /\ \E n \in {clear_full_rows(st)} : Assign(n)
    /\ UNCHANGED ret

NextClear == ClearCall

SpecClear == InitClear /\ [][NextClear]_vars

-----------------------------------------------------------------------------
(* valid_move on its own: boards with one occupied row, every shape and its *)
(* rotation, anchors inside and just outside the board                      *)

ValidBoards ==
    {EmptyBoard} \cup
    {[EmptyBoard EXCEPT ![y] = RowOf(cols)] :
        y \in 1..BOARD_HEIGHT, cols \in {{1}, {3, 4}, {BOARD_WIDTH}}}

ValidPieces ==
    {[shape |-> sh, color |-> SHAPE_COLORS[1], x |-> px, y |-> py, pixel_y |-> 0] :
        sh \in {SHAPES[i] : i \in 1..Len(SHAPES)} \cup {rotate(SHAPES[i]) : i \in 1..Len(SHAPES)},
        px \in (-1)..(BOARD_WIDTH - 1),
        py \in (-2)..(BOARD_HEIGHT - 1)}

InitValid ==
    \E b \in ValidBoards, p \in ValidPieces : StateWithBoard(b, p)

ValidCall ==
    /\ \E dx \in (-1)..1, dy \in (-1)..1 :
          ret' = [called |-> TRUE, dx |-> dx, dy |-> dy, value |-> valid_move(st, dx, dy)]
    /\ UNCHANGED <<board, current_piece, score, running, drop_speed, score_label,
                   canvas, pending, error, locks>>

NextValid == ValidCall

SpecValid == InitValid /\ [][NextValid]_vars

-----------------------------------------------------------------------------
(* Piece.rotate on its own: every piece new_piece can make, turned up to    *)
(* MaxTurns times; ret keeps the shape the piece was made with and the      *)
(* number of calls of rotate so far                                         *)

MaxTurns == 4

InitRotate ==
    \E shape_ix \in 1..Len(SHAPES), color_ix \in 1..Len(SHAPE_COLORS) :
        /\ board = EmptyBoard
        /\ current_piece = new_piece(shape_ix, color_ix)
        /\ score = 0
        /\ running = TRUE
        /\ drop_speed = FALL_SPEED
        /\ score_label = 0
        /\ canvas = {}
        /\ pending = 0
        /\ error = "none"
        /\ locks = 0
        /\ ret = [called |-> FALSE, turns |-> 0, original |-> SHAPES[shape_ix]]

RotateCall ==
    /\ ret.turns < MaxTurns
    /\ current_piece' = [current_piece EXCEPT !.shape = rotate(@)]
    /\ ret' = [ret EXCEPT !.called = TRUE, !.turns = @ + 1]
    /\ UNCHANGED <<board, score, running, drop_speed, score_label, canvas,
                   pending, error, locks>>

NextRotate == RotateCall

SpecRotate == InitRotate /\ [][NextRotate]_vars

-----------------------------------------------------------------------------
(* Properties of the game *)

\* The board cells (row, column), 0-based, under the current piece.
PieceCells ==
    {<<current_piece.y + r - 1, current_piece.x + c - 1>> :
        <<r, c>> \in {rc \in (1..Len(current_piece.shape)) \X (1..Len(current_piece.shape[1])) :
                         current_piece.shape[rc[1]][rc[2]] = 1}}

Locked(row, col) ==
    /\ row >= 0 /\ row < BOARD_HEIGHT
    /\ col >= 0 /\ col < BOARD_WIDTH
    /\ board[row + 1][col + 1] # None

FullRowsOf(b) == {y \in 1..Len(b) : \A x \in 1..Len(b[y]) : b[y][x] # None}

\* C1: after every handler, every cell of the active piece lies in columns
\* [0, BOARD_WIDTH), in a row below BOARD_HEIGHT, and on no locked cell.
C1_ActivePieceLegal ==
    \A cell \in PieceCells :
        /\ cell[2] >= 0 /\ cell[2] < BOARD_WIDTH
        /\ cell[1] < BOARD_HEIGHT
        /\ ~Locked(cell[1], cell[2])

\* C2: no handler ever ends with an exception.
C2_NoHandlerFails == error = "none"

\* The board right after the writing loop of a lock run by a tick from the
\* current state (the piece has been advanced one row before it locks).
BoardAfterLockWrites ==
    lock_write(board, [current_piece EXCEPT !.y = @ + 1], 0, 0).board

\* C3: every transition changes score by exactly 100 * k, k being the number
\* of full rows on the board right after the cells of a lock of that
\* transition are written, and 0 when the transition does not lock.
C3_ScoreLaw ==
    [][score' = score + 100 * (IF locks' # locks
                               THEN Cardinality(FullRowsOf(BoardAfterLockWrites))
                               ELSE 0)]_vars

\* C4: clear_full_rows keeps the numbers of rows and columns, leaves k empty
\* rows on top (k the number of full rows) and below them the rows that were
\* not full, in their order and unchanged: each moves down by the number of
\* full rows that were below it.
C4_ClearKeepsOrder ==
    [][LET full == FullRowsOf(board)
           k == Cardinality(full)
       IN  /\ Len(board') = BOARD_HEIGHT /\ Len(board) = BOARD_HEIGHT
           /\ \A y \in 1..BOARD_HEIGHT : Len(board'[y]) = BOARD_WIDTH
           /\ \A y \in 1..k : \A x \in 1..BOARD_WIDTH : board'[y][x] = None
           /\ \A y \in (1..BOARD_HEIGHT) \ full :
                  board'[y + Cardinality({z \in full : z > y})] = board[y]]_vars

\* Two rows were cleared and a row with locked cells was kept.
C4_Witness ==
    /\ score = 200
    /\ \A y \in 1..2 : board[y] = EmptyRow
    /\ \E y \in 3..BOARD_HEIGHT : board[y] # EmptyRow

\* A cell of the piece, moved by (dx, dy), leaves the board sideways or below
\* or lies on a locked cell of a row >= 0.
Blocked(dx, dy) ==
    \E cell \in PieceCells :
        LET row == cell[1] + dy
            col == cell[2] + dx
        IN  \/ col < 0
            \/ col >= BOARD_WIDTH
            \/ row >= BOARD_HEIGHT
            \/ row >= 0 /\ Locked(row, col)

\* C5: valid_move(dx, dy) is false exactly when a moved cell is out of the
\* columns, below the last row, or on a locked cell of a row >= 0.
C5_ValidMoveIff ==
    ret.called => (ret.value = FALSE <=> Blocked(ret.dx, ret.dy))

\* valid_move accepted a move that puts a cell of the piece above row 0.
C5_Witness ==
    /\ ret.called /\ ret.value = TRUE
    /\ \E cell \in PieceCells : cell[1] + ret.dy < 0
    /\ board # EmptyBoard

\* C6: running starts true; once it is false it stays false, no tick is
\* pending or runs, and board and score stay as they are.
C6_GameOverTerminal ==
    /\ running = TRUE
    /\ [][~running => /\ ~running'
                      /\ pending = 0 /\ pending' = 0
                      /\ ~Tick
                      /\ board' = board
                      /\ score' = score]_vars

\* A Down key was handled after the tick that ended the game.
C6_Witness == ~running /\ drop_speed = FAST_DROP_SPEED

\* The piece has just been spawned by a lock (no tick has moved it yet) and
\* one of its cells lies on a locked cell.
FreshSpawnOverlap ==
    /\ current_piece.y = 0 /\ current_piece.pixel_y = 0
    /\ \E cell \in PieceCells : Locked(cell[1], cell[2])

\* C7: a piece spawned onto locked cells ends the game no later than the
\* next tick.
C7_SpawnOverlapEndsGame ==
    [][(FreshSpawnOverlap /\ Tick) => ~running']_vars

\* C8: once the game is over the canvas holds the GAME OVER text.
C8_GameOverShown == ~running => "GAME OVER" \in canvas

\* C9: between events exactly one tick is pending while running, none after.
C9_OnePendingTick == pending = (IF running THEN 1 ELSE 0)

Rejected(keysym) ==
    \/ keysym = "Left" /\ ~valid_move(st, -1, 0)
    \/ keysym = "Right" /\ ~valid_move(st, 1, 0)
    \/ keysym = "Up" /\ ~valid_move([st EXCEPT !.current_piece.shape = rotate(@)], 0, 0)

\* C10: in every reachable state, handling a Left, Right or Up that is
\* rejected leaves x, y, pixel_y and shape of the piece as they were.
C10_RejectedKeyNoOp ==
    \A keysym \in {"Left", "Right", "Up"} :
        Rejected(keysym) =>
            LET after == handle_key(st, keysym).current_piece
            IN  /\ after.x = current_piece.x
                /\ after.y = current_piece.y
                /\ after.pixel_y = current_piece.pixel_y
                /\ after.shape = current_piece.shape

\* A running game in which Left and Up are both rejected with a piece in
\* mid-fall next to locked cells.
C10_Witness ==
    /\ running /\ locks >= 1 /\ current_piece.y >= 1
    /\ Rejected("Left") /\ Rejected("Up") /\ ~Rejected("Right")

\* C11: a call of rotate turns the r x c shape into the c x r matrix that is
\* its quarter turn clockwise (the cell of row a, column b goes to row b,
\* column r + 1 - a), and after four calls the shape equals, cell by cell,
\* the shape the piece was made with.
C11_RotateQuarterTurn ==
    [][LET old == current_piece.shape
           new == current_piece'.shape
           r == Len(old)
           c == Len(old[1])
       IN  /\ Len(new) = c
           /\ \A b \in 1..c : Len(new[b]) = r
           /\ \A a \in 1..r : \A b \in 1..c : new[b][r + 1 - a] = old[a][b]
           /\ ret'.turns = 4 =>
                  /\ Len(new) = Len(ret.original)
                  /\ \A a \in 1..Len(new) :
                         /\ Len(new[a]) = Len(ret.original[a])
                         /\ \A b \in 1..Len(new[a]) : new[a][b] = ret.original[a][b]]_vars

\* The L shape after four calls of rotate.
C11_Witness ==
    /\ ret.called /\ ret.turns = 4
    /\ ret.original = SHAPES[6]
    /\ current_piece.shape = SHAPES[6]

\* The step is a tick, that is update run from the current state, with the
\* piece that is current after the step as what new_piece drew if it ran.
TickDrawing ==
    /\ pending > 0
    /\ LET shape_ix == IF \E i \in SpawnShapes : SHAPES[i] = current_piece'.shape
                        THEN CHOOSE i \in SpawnShapes : SHAPES[i] = current_piece'.shape
                        ELSE 1
            color_ix == CHOOSE i \in SpawnColors : SHAPE_COLORS[i] = current_piece'.color
        IN  Assign(update([st EXCEPT !.pending = @ - 1], shape_ix, color_ix))
    /\ UNCHANGED ret

\* A lock of this step ran to its end: it wrote the piece's cells, cleared
\* the full rows and spawned the replacement, which is current_piece'.
LockCompleted == locks' = locks + 1 /\ error' = "none"

\* C12: running changes only to false, and only in a tick whose lock has
\* spawned the replacement piece when that piece, at y = 0, cannot move down
\* one row; every lock that spawns a piece which cannot move down one row
\* sets running to false in that tick; a key event or a tick that does not
\* lock leaves running as it is.
C12_GameOverOnlyAtBlockedSpawn ==
    [][/\ running' # running =>
             /\ running /\ ~running'
             /\ TickDrawing
             /\ LockCompleted
             /\ current_piece'.y = 0
             /\ ~valid_move_loop(board', current_piece', 0, 0, 0, 1)
       /\ (LockCompleted /\ ~valid_move_loop(board', current_piece', 0, 0, 0, 1))
             => ~running'
       /\ locks' = locks => running' = running]_vars

\* The game has ended at a spawn that lies on no locked cell: the piece is
\* as the lock made it and the row below it is taken.
C12_Witness ==
    /\ ~running /\ locks >= 1
    /\ current_piece.y = 0 /\ current_piece.pixel_y = 0
    /\ valid_move(st, 0, 0) /\ ~valid_move(st, 0, 1)

\* C13: with every armed tick run in the end, the piece of a running game
\* is eventually locked and replaced, whatever keys arrive.  Stated on the
\* steps: while running a tick is armed; a tick either completes a lock,
\* which replaces the piece, or takes the piece further down by at least a
\* pixel, and it cannot go further than the height of the board; a key event
\* neither locks nor moves the piece up or down.
C13_EveryPieceLocks ==
    [][/\ running => pending > 0
       /\ running' => pending' > 0
       /\ Tick => \/ LockCompleted
                  \/ /\ locks' = locks
                     /\ current_piece'.pixel_y > current_piece.pixel_y
                     /\ current_piece'.pixel_y <= BOARD_HEIGHT * BLOCK_SIZE
       /\ ~Tick => /\ locks' = locks
                   /\ current_piece'.pixel_y = current_piece.pixel_y]_vars

\* C14: drop_speed is always FALL_SPEED or FAST_DROP_SPEED; it is FALL_SPEED
\* at the end of every tick; a Down key sets it to FAST_DROP_SPEED and
\* changes nothing else; and it becomes FAST_DROP_SPEED only by a Down key,
\* so that a tick runs fast only if a Down arrived since the last tick ended.
C14_DropSpeedLaw ==
    /\ drop_speed = FALL_SPEED
    /\ [][/\ drop_speed' \in {FALL_SPEED, FAST_DROP_SPEED}
          /\ Tick => drop_speed' = FALL_SPEED
          /\ handle_key(st, "Down") = [st EXCEPT !.drop_speed = FAST_DROP_SPEED]
          /\ (drop_speed' = FAST_DROP_SPEED /\ drop_speed # FAST_DROP_SPEED)
                => Assign(handle_key(st, "Down"))]_vars

\* Every tick that can follow the current state with FAST_DROP_SPEED set
\* takes the piece exactly one row down, unless it locks it (a tick that does
\* not lock draws no piece: what random.choice would give does not matter).
FastTickAdvances ==
    (drop_speed = FAST_DROP_SPEED /\ pending > 0) =>
        \A n \in {update([st EXCEPT !.pending = @ - 1], 1, 1)} :
            n.locks = locks => n.current_piece.y = current_piece.y + 1

\* C15: a tick takes the piece down by no row or by one row, never by more,
\* and by exactly one row when it runs with FAST_DROP_SPEED.  In a step that
\* does not lock this is read off the piece; a step that locks is a tick
\* that wrote the piece one row below where it was (BoardAfterLockWrites)
\* and, if the lock ran to its end, cleared the full rows of that board.
C15_OneRowPerTick ==
    /\ []FastTickAdvances
    /\ [][/\ locks' = locks =>
                current_piece'.y \in {current_piece.y, current_piece.y + 1}
          /\ locks' # locks =>
                /\ TickDrawing
                /\ error' # "none" =>
                       /\ board' = BoardAfterLockWrites
                       /\ current_piece'.y = current_piece.y + 1
                /\ error' = "none" =>
                       board' = clear_full_rows([st EXCEPT !.board = BoardAfterLockWrites]).board]_vars

\* A tick has just taken the second piece of the session down to row 1
\* without locking it: pixel_y is at the top of that row.
C15_Witness ==
    /\ locks = 1 /\ running /\ error = "none"
    /\ current_piece.y = 1 /\ current_piece.pixel_y = BLOCK_SIZE
    /\ drop_speed = FALL_SPEED

\* C16 as stated: pixel_y is an offset within the cell, 0 <= pixel_y <
\* BLOCK_SIZE in every reachable state, and every step that increments y
\* sets it to 0.
C16_PixelOffsetSubCell ==
    /\ 0 <= current_piece.pixel_y /\ current_piece.pixel_y < BLOCK_SIZE
    /\ [][/\ 0 <= current_piece'.pixel_y /\ current_piece'.pixel_y < BLOCK_SIZE
          /\ current_piece'.y > current_piece.y => current_piece'.pixel_y = 0]_vars

\* pixel_y lies in the pixel rows of the cell row y.
PixelYInRow(p) ==
    /\ p.y * BLOCK_SIZE <= p.pixel_y
    /\ p.pixel_y < (p.y + 1) * BLOCK_SIZE

\* C16 amended: pixel_y is the vertical position of the piece in pixels; in
\* every reachable state y * BLOCK_SIZE <= pixel_y < (y + 1) * BLOCK_SIZE,
\* so that the offset within the cell, pixel_y - y * BLOCK_SIZE, lies in
\* [0, BLOCK_SIZE), and every step that increments y sets pixel_y to
\* y * BLOCK_SIZE for the new y (offset 0).
C16_PixelYWithinRow ==
    /\ PixelYInRow(current_piece)
    /\ [][/\ PixelYInRow(current_piece')
          /\ current_piece'.y > current_piece.y =>
                current_piece'.pixel_y = current_piece'.y * BLOCK_SIZE]_vars

\* The first piece two rows down and one pixel into the third row.
C16_Witness ==
    /\ locks = 0 /\ current_piece.y = 2
    /\ current_piece.pixel_y = 2 * BLOCK_SIZE + 1

\* What handling keysym in the current state does: never anything to board,
\* score or running; Left or Right moves x by one and nothing else, or, only
\* when that move is not valid, nothing at all; Up replaces the shape and
\* nothing else; Down sets drop_speed and nothing else; a key that is none
\* of the four nothing.
KeyFrame(keysym) ==
    LET n == handle_key(st, keysym)
    IN  /\ n.board = board /\ n.score = score /\ n.running = running
        /\ keysym = "Left" =>
               \/ n = [st EXCEPT !.current_piece.x = current_piece.x - 1]
               \/ n = st /\ Rejected("Left")
        /\ keysym = "Right" =>
               \/ n = [st EXCEPT !.current_piece.x = current_piece.x + 1]
               \/ n = st /\ Rejected("Right")
        /\ keysym = "Up" =>
               n = [st EXCEPT !.current_piece.shape = n.current_piece.shape]
        /\ keysym = "Down" => n = [st EXCEPT !.drop_speed = FAST_DROP_SPEED]
        /\ keysym \notin {"Left", "Right", "Up", "Down"} => n = st

\* C17: in every reachable state every key event has the effect KeyFrame
\* allows; and a step changes the board only if it is a tick in which a lock
\* ran: the new board is then the old one with the cells of the piece (one
\* row down) written, and the full rows cleared once the writes are done.
C17_KeyFrameAndBoardOwner ==
    /\ [](\A keysym \in KeySyms : KeyFrame(keysym))
    /\ [][board' # board =>
             /\ TickDrawing
             /\ locks' = locks + 1
             /\ board' = IF error' = "none"
                         THEN clear_full_rows([st EXCEPT !.board = BoardAfterLockWrites]).board
                         ELSE BoardAfterLockWrites]_vars

\* After a lock has changed the board, the next piece has been moved
\* sideways, turned and sent down fast by keys.
C17_Witness ==
    /\ locks = 1 /\ board # EmptyBoard /\ error = "none"
    /\ current_piece.x # new_piece(3, 1).x
    /\ current_piece.shape = rotate(SHAPES[3])
    /\ drop_speed = FAST_DROP_SPEED

\* C18: between events the board holds no full row.
C18_NoFullRowPersists == FullRowsOf(board) = {}

\* C19: row 0 of the board is empty in every reachable state and the piece
\* is never above row 0 (so no call of valid_move, which the handlers make
\* with dy = 0 or dy = 1 only, tests a negative row); a step that locks
\* locks a piece that has left row 0, so that it writes rows >= 1 only; the
\* row clearing of a lock that runs to its end only shifts rows downward:
\* every row that is not full after the writes is, unchanged, as many rows
\* further down as there were full rows below it, and the top row is empty
\* again; and the piece that lock spawns is at y = 0 when the game-over test
\* reads it.
C19_TopRowEmpty ==
    /\ [](board[1] = EmptyRow /\ current_piece.y >= 0)
    /\ [][locks' # locks =>
             LET written == BoardAfterLockWrites
                 full == FullRowsOf(written)
             IN  /\ \A cell \in PieceCells : cell[1] + 1 >= 1
                 /\ written[1] = EmptyRow
                 /\ LockCompleted =>
                        /\ current_piece'.y = 0
                        /\ \A y \in (1..BOARD_HEIGHT) \ full :
                               board'[y + Cardinality({z \in full : z > y})]
                                   = written[y]]_vars

\* A lock has completed the last row and the row clearing has taken it out:
\* the cells the piece had above it came one row down, none is in row 0,
\* and the game goes on.
C19_Witness ==
    /\ score = 100 /\ locks >= 2 /\ error = "none" /\ running
    /\ board[1] = EmptyRow /\ board[BOARD_HEIGHT] # EmptyRow
    /\ FullRowsOf(board) = {}

====
